---------------------------- MODULE Spec2Model ----------------------------
(***************************************************************************)
(* Model of the regex previewer extension:                                 *)
(*   src/src/extension.ts            (events, literal scanner, resync)     *)
(*   src/src/RegexMatchDecorator.ts  (per-view decorator, match evaluator) *)
(*                                                                         *)
(* Texts are sequences of one-character strings.  A RegExp object is a     *)
(* record [source, flags, lastIndex]; flags is the set of flag characters  *)
(* (what regex.flags denotes), lastIndex is the mutable scan position.     *)
(***************************************************************************)
EXTENDS Integers, Sequences, FiniteSets, TLC

VARIABLES
    docText,            \* document -> its current text
    selection,          \* editor -> anchor position [line, character]
    visibleTextEditors, \* vscode.window.visibleTextEditors
    activeTextEditor,   \* vscode.window.activeTextEditor or None
    editorURI,          \* extension.ts:30, None or the preview document
    decorators,         \* extension.ts:26, the editors that have a decorator
    addGMEnabled,       \* extension.ts:27
    activeRegex,        \* extension.ts:32, Undefined or a RegexMatch
    regexHighlight,     \* editor -> ranges rendered with regexHighlight
    matchHighlight,     \* editor -> ranges rendered with matchHighlight
    opening,            \* progress of the asynchronous openLoremIpsum chain
    ev                  \* one evaluation of findMatches, step by step

vars == <<docText, selection, visibleTextEditors, activeTextEditor, editorURI,
          decorators, addGMEnabled, activeRegex, regexHighlight, matchHighlight,
          opening, ev>>

\* the value undefined where an object may stand (a record, so that it
\* compares with every object)
Undefined == [undefined |-> TRUE]

\* the value undefined where an editor or a document may stand
None == "undefined"

-----------------------------------------------------------------------------
(* Sequences helpers *)

Range(s) == {s[i] : i \in 1..Len(s)}

NoDuplicates(s) == \A i, j \in 1..Len(s) : i # j => s[i] # s[j]

Min(a, b) == IF a < b THEN a ELSE b

\* String.prototype.substr(start, length) with 0-based start
Substr(s, start, length) == SubSeq(s, start + 1, Min(Len(s), start + length))

-----------------------------------------------------------------------------
(* The host's pattern engine (new RegExp, RegExp.prototype.exec), for the   *)
(* pattern syntax the modelled texts use: literal characters, ".", "^",    *)
(* "$" and the postfix "*".                                                *)

NoMatch == -1

\* what new RegExp throws
SyntaxError == [throws |-> "SyntaxError"]

\* characters of the pattern syntax the model gives no meaning to; the
\* modelled texts never put them inside a literal
UnmodelledSyntax == {"\\", "+", "?", "(", ")", "[", "]", "{", "}", "|"}

RECURSIVE ParseItems(_, _, _)
\* the items of pattern source src from position i on, acc the items so far;
\* ok is FALSE when the engine rejects the pattern
ParseItems(src, i, acc) ==
    IF i > Len(src) THEN [ok |-> TRUE, items |-> acc]
    ELSE LET c == src[i] IN
         IF c = "*" THEN
             \* a quantifier needs a preceding, unquantified atom
             IF acc = <<>> \/ acc[Len(acc)].star \/ acc[Len(acc)].kind \in {"bol", "eol"}
             THEN [ok |-> FALSE, items |-> <<>>]
             ELSE ParseItems(src, i + 1,
                      [acc EXCEPT ![Len(acc)] = [@ EXCEPT !.star = TRUE]])
         ELSE LET kind == CASE c = "^" -> "bol"
                            [] c = "$" -> "eol"
                            [] c = "." -> "any"
                            [] OTHER   -> "char"
              IN ParseItems(src, i + 1,
                     Append(acc, [kind |-> kind, ch |-> c, star |-> FALSE]))

ParsePattern(src) == ParseItems(src, 1, <<>>)

\* new RegExp(pattern, flags): the object, or SyntaxError when the engine
\* rejects the pattern or the flags (a flag given twice)
NewRegExp(pattern, flags) ==
    IF ~ParsePattern(pattern).ok \/ ~NoDuplicates(flags)
    THEN SyntaxError
    ELSE [source |-> pattern, flags |-> Range(flags), lastIndex |-> 0]

\* does the one-character atom it match text at 0-based offset pos
AtomMatches(it, text, pos, flags) ==
    /\ pos < Len(text)
    /\ \/ it.kind = "char" /\ text[pos + 1] = it.ch
       \/ it.kind = "any" /\ (text[pos + 1] # "\n" \/ "s" \in flags)

AssertionHolds(it, text, pos, flags) ==
    IF it.kind = "bol"
    THEN pos = 0 \/ ("m" \in flags /\ text[pos] = "\n")
    ELSE pos = Len(text) \/ ("m" \in flags /\ text[pos + 1] = "\n")

RECURSIVE MatchFrom(_, _, _, _, _)
\* backtracking matcher: the end offset of the match of items[i..] at pos
\* that the engine's priority order finds first, or NoMatch
MatchFrom(items, i, text, pos, flags) ==
    IF i > Len(items) THEN pos
    ELSE LET it == items[i] IN
         IF it.kind \in {"bol", "eol"} THEN
             IF AssertionHolds(it, text, pos, flags)
             THEN MatchFrom(items, i + 1, text, pos, flags)
             ELSE NoMatch
         ELSE IF it.star THEN
             \* greedy: one more repetition first, then the continuation
             LET more == IF AtomMatches(it, text, pos, flags)
                         THEN MatchFrom(items, i, text, pos + 1, flags)
                         ELSE NoMatch
             IN IF more # NoMatch THEN more
                ELSE MatchFrom(items, i + 1, text, pos, flags)
         ELSE IF AtomMatches(it, text, pos, flags)
              THEN MatchFrom(items, i + 1, text, pos + 1, flags)
              ELSE NoMatch

\* the end offset of a match of regex starting exactly at pos, or NoMatch
MatchAt(regex, text, pos) ==
    MatchFrom(ParsePattern(regex.source).items, 1, text, pos, regex.flags)

\* the object regex with its lastIndex set to index when it is global or
\* sticky (no other matcher has its lastIndex written by exec)
SetLastIndex(regex, index) ==
    IF "g" \in regex.flags \/ "y" \in regex.flags
    THEN [regex EXCEPT !.lastIndex = index] ELSE regex

RECURSIVE ExecFrom(_, _, _)

\* one round of the loop of RegExpBuiltinExec at scan position lastIndex,
\* e the result of matching there
ExecRound(regex, text, lastIndex, e) ==
    IF e = NoMatch THEN
        IF "y" \in regex.flags
        THEN [found |-> FALSE, regex |-> SetLastIndex(regex, 0)]
        ELSE ExecFrom(regex, text, lastIndex + 1)
    ELSE [found |-> TRUE, index |-> lastIndex, end |-> e,
          regex |-> SetLastIndex(regex, e)]

\* the loop of RegExpBuiltinExec from scan position lastIndex
ExecFrom(regex, text, lastIndex) ==
    IF lastIndex > Len(text)
    THEN [found |-> FALSE, regex |-> SetLastIndex(regex, 0)]
    ELSE ExecRound(regex, text, lastIndex, MatchAt(regex, text, lastIndex))

\* regex.exec(text): the match (index, end) if any, and the object afterwards
Exec(regex, text) ==
    ExecFrom(regex, text,
             IF "g" \in regex.flags \/ "y" \in regex.flags
             THEN regex.lastIndex ELSE 0)

-----------------------------------------------------------------------------
(* RegexMatchDecorator.ts: the match evaluator *)

\* the flag characters in the order the flags getter of a RegExp lists them
FlagOrder == <<"d", "g", "i", "m", "s", "u", "v", "y">>

\* regex.flags: the flags of the object as a string
FlagString(regex) ==
    SelectSeq(FlagOrder, LAMBDA f : f \in regex.flags)

\* document.positionAt(offset) in a document whose text is text
positionAt(text, offset) ==
    LET breaks == {i \in 1..offset : text[i] = "\n"}
        lineStart == IF breaks = {} THEN 0
                     ELSE CHOOSE i \in breaks : \A j \in breaks : j <= i
    IN [line |-> Cardinality(breaks), character |-> offset - lineStart]

\* new vscode.Range(start, end)
NewRange(start, end) == [start |-> start, end |-> end]

\* addGM forcing on the global flag only
addGMGlobalOnly(regex, enabled) ==
    IF ~enabled \/ ("g" \in regex.flags /\ "m" \in regex.flags)
    THEN [same |-> TRUE, regex |-> regex]
    ELSE [same |-> FALSE,
          regex |-> NewRegExp(regex.source,
                              FlagString(regex)
                              \o (IF "g" \notin regex.flags THEN <<"g">> ELSE <<>>))]

\* addGM(regex, addGMEnabled): the matcher to evaluate; same tells whether
\* it is the object passed in or a new one
addGM(regex, enabled) ==
    IF ~enabled \/ ("g" \in regex.flags /\ "m" \in regex.flags)
    THEN [same |-> TRUE, regex |-> regex]
    ELSE [same |-> FALSE,
          regex |-> NewRegExp(regex.source,
                              FlagString(regex)
                              \o (IF "g" \notin regex.flags THEN <<"g">> ELSE <<>>)
                              \o (IF "m" \notin regex.flags THEN <<"m">> ELSE <<>>))]

\* a loop guard that lets every matcher search again
MayExecAgain(st) == TRUE

\* a loop body without the step over an empty match
LoopBodyNoStep(st, text, r) ==
    [regex |-> r.regex,
     matches |-> Append(st.matches,
                        NewRange(positionAt(text, r.index), positionAt(text, r.end))),
     done |-> FALSE]

\* the guard of the while loop of findMatches that does not call exec
MayExec(st) == "g" \in st.regex.flags \/ st.matches = <<>>

\* the body of the while loop of findMatches, r the result of regex.exec
LoopBody(st, text, r) ==
    [regex |-> \* handle empty matches
               IF r.regex.lastIndex = r.index
               THEN [r.regex EXCEPT !.lastIndex = @ + 1]
               ELSE r.regex,
     matches |-> Append(st.matches,
                        NewRange(positionAt(text, r.index), positionAt(text, r.end))),
     done |-> FALSE]

\* the second conjunct of the loop condition, r the result of regex.exec,
\* and the loop body when it holds
LoopExec(st, text, r) ==
    IF ~r.found
    THEN [regex |-> r.regex, matches |-> st.matches, done |-> TRUE]
    ELSE LoopBody(st, text, r)

\* one evaluation of the loop condition of findMatches and, when it holds,
\* of the loop body; st = [regex, matches, done]
LoopStep(st, text) ==
    IF ~MayExec(st) THEN [st EXCEPT !.done = TRUE]
    ELSE LoopExec(st, text, Exec(st.regex, text))

RECURSIVE RunLoop(_, _)
RunLoop(st, text) == IF st.done THEN st ELSE RunLoop(LoopStep(st, text), text)

\* what findMatches returns and leaves behind: g the result of addGM, fin
\* the state at the end of the loop
Evaluated(regexMatch, g, fin) ==
    [matches |-> fin.matches,
     regexMatch |-> IF g.same THEN [regexMatch EXCEPT !.regex = fin.regex]
                    ELSE regexMatch]

\* the loop of findMatches on the matcher g.regex
Evaluate(regexMatch, text, g) ==
    Evaluated(regexMatch, g,
              RunLoop([regex |-> g.regex, matches |-> <<>>, done |-> FALSE], text))

\* findMatches(regexMatch, document, addGMEnabled) with text = document.getText():
\* the ranges returned, and regexMatch as the call leaves it (exec moves the
\* lastIndex of regexMatch.regex when addGM returned that very object)
findMatches(regexMatch, text, enabled) ==
    Evaluate(regexMatch, text, addGM(regexMatch.regex, enabled))

-----------------------------------------------------------------------------
(* extension.ts: the literal scanner *)

\* what \s matches, among the characters a line can hold
WhiteSpace == {" ", "\t"}

\* the character class [()={},:?;]
Punctuation == {"(", ")", "=", "{", "}", ",", ":", "?", ";"}

\* the character class ['|"]
QuoteChars == {"'", "|", "\""}

\* regexRegex, phpRegexRegex, haxeRegexRegex as grammars: whether a quote
\* character wraps group 2, whether group 2 opens with the sigil, the flag
\* characters, and the characters accepted after the flags
regexRegex ==
    [quoted |-> FALSE, sigil |-> FALSE,
     flagChars |-> {"g", "i", "m", "u", "y"},
     trailing |-> WhiteSpace \cup Punctuation]

phpRegexRegex ==
    [quoted |-> TRUE, sigil |-> FALSE,
     flagChars |-> {"g", "i", "m", "u", "y"},
     trailing |-> WhiteSpace \cup Punctuation]

haxeRegexRegex ==
    [quoted |-> FALSE, sigil |-> TRUE,
     flagChars |-> {"g", "i", "m", "s", "u"},
     trailing |-> WhiteSpace \cup Punctuation \cup {"."}]

getRegexRegex(languageId) ==
    IF languageId = "haxe" THEN haxeRegexRegex
    ELSE IF languageId = "php" THEN phpRegexRegex
    ELSE regexRegex

\* is the character at 0-based offset i of text in set
CharIn(text, i, set) == i < Len(text) /\ text[i + 1] \in set

\* one repetition of (?:\\\/|\[[^\]]*\]|[^/]) at offset p: the offsets it can
\* end at, in the order of the alternatives
BodySteps(text, p) ==
    LET closers == {i \in (p + 1)..(Len(text) - 1) : text[i + 1] = "]"}
    IN (IF CharIn(text, p, {"\\"}) /\ CharIn(text, p + 1, {"/"})
        THEN <<p + 2>> ELSE <<>>)
       \o (IF CharIn(text, p, {"["}) /\ closers # {}
           THEN <<1 + CHOOSE i \in closers : \A j \in closers : i <= j>>
           ELSE <<>>)
       \o (IF p < Len(text) /\ text[p + 1] # "/" THEN <<p + 1>> ELSE <<>>)

RECURSIVE BodyEnds(_, _)
RECURSIVE StepsEnds(_, _, _)

\* the ends of the group after one repetition ending at steps[k], then
\* those after the later alternatives: greedy, more repetitions first
StepsEnds(text, steps, k) ==
    IF k > Len(steps) THEN <<>>
    ELSE BodyEnds(text, steps[k]) \o <<steps[k]>> \o StepsEnds(text, steps, k + 1)

\* ((?:\\\/|\[[^\]]*\]|[^/])+) from offset p: the offsets at which the group
\* can end, in the order the backtracking engine tries them
BodyEnds(text, p) == StepsEnds(text, BodySteps(text, p), 1)

\* the offsets from..to, descending
RECURSIVE Descending(_, _)
Descending(to, from) ==
    IF to < from THEN <<>> ELSE <<to>> \o Descending(to - 1, from)

\* the end of the longest run of characters of set from offset p
RECURSIVE RunEnd(_, _, _)
RunEnd(text, p, set) ==
    IF CharIn(text, p, set) THEN RunEnd(text, p + 1, set) ELSE p

\* the offset at which group 2 starts when the match starts at p with a
\* group 1 of length len1
GroupStart(re, p, len1) == p + len1 + (IF re.quoted THEN 1 ELSE 0)

\* the offset of the opening delimiter
SlashAt(re, p, len1) == GroupStart(re, p, len1) + (IF re.sigil THEN 1 ELSE 0)

\* the offset after the flags ending at fe and the closing quote, if any
CloseAt(re, fe) == fe + (IF re.quoted THEN 1 ELSE 0)

\* the match of grammar re against text that starts at offset p with a
\* group 1 of length len1, a body ending at be and flags ending at fe
ScanCandidate(re, text, p, len1, be, fe) ==
    [found |-> TRUE, index |-> p, len1 |-> len1,
     len2 |-> fe - GroupStart(re, p, len1),
     pattern |-> SubSeq(text, SlashAt(re, p, len1) + 2, be),
     flags |-> SubSeq(text, be + 2, fe),
     end |-> IF CloseAt(re, fe) = Len(text)
             THEN CloseAt(re, fe) ELSE CloseAt(re, fe) + 1]

\* does the rest of the grammar accept a body ending at be and flags
\* ending at fe
ScanAccepts(re, text, be, fe) ==
    /\ CharIn(text, be, {"/"})
    /\ re.quoted => CharIn(text, fe, QuoteChars)
    /\ CharIn(text, CloseAt(re, fe), re.trailing) \/ CloseAt(re, fe) = Len(text)

\* does the grammar accept the text from offset p + len1 up to the
\* opening delimiter
ScanOpens(re, text, p, len1) ==
    /\ re.quoted => CharIn(text, p + len1, QuoteChars)
    /\ re.sigil => CharIn(text, GroupStart(re, p, len1), {"~"})
    /\ CharIn(text, SlashAt(re, p, len1), {"/"})

\* the choices <<len1, be, fe>> for a body ending at be, fs the ends of the
\* flags ([gimuy]* is greedy)
FlagChoices(len1, be, fs) == [k \in 1..Len(fs) |-> <<len1, be, fs[k]>>]

RECURSIVE BodyChoices(_, _, _, _, _)
\* the choices for the body ends ends[k..]
BodyChoices(re, text, len1, ends, k) ==
    IF k > Len(ends) THEN <<>>
    ELSE FlagChoices(len1, ends[k],
                     Descending(RunEnd(text, ends[k] + 1, re.flagChars), ends[k] + 1))
         \o BodyChoices(re, text, len1, ends, k + 1)

\* every <<len1, be, fe>> the engine may try with a group 1 of length len1
Choices(re, text, p, len1) ==
    IF ~ScanOpens(re, text, p, len1) THEN <<>>
    ELSE BodyChoices(re, text, len1,
                     BodyEnds(text, SlashAt(re, p, len1) + 1), 1)

\* (^|\s|[()={},:?;]) at offset p: the lengths group 1 can have, in the
\* order of the alternatives
Leads(text, p) ==
    (IF p = 0 THEN <<0>> ELSE <<>>)
    \o (IF CharIn(text, p, WhiteSpace \cup Punctuation) THEN <<1>> ELSE <<>>)

RECURSIVE LeadChoices(_, _, _, _, _)
LeadChoices(re, text, p, leads, k) ==
    IF k > Len(leads) THEN <<>>
    ELSE Choices(re, text, p, leads[k]) \o LeadChoices(re, text, p, leads, k + 1)

\* the first of the accepted choices good, as a match
FirstMatch(re, text, p, good) ==
    IF good = <<>> THEN [found |-> FALSE]
    ELSE ScanCandidate(re, text, p, good[1][1], good[1][2], good[1][3])

\* the match of grammar re at offset p exactly, or [found |-> FALSE]
ScanAt(re, text, p) ==
    FirstMatch(re, text, p,
               SelectSeq(LeadChoices(re, text, p, Leads(text, p), 1),
                         LAMBDA c : ScanAccepts(re, text, c[2], c[3])))

RECURSIVE ScanExec(_, _, _)

\* m, when it is a match, else the search from the next offset
ScanFound(re, text, lastIndex, m) ==
    IF m.found THEN m ELSE ScanExec(re, text, lastIndex + 1)

\* regex.exec(text) of the global grammar re with regex.lastIndex = lastIndex;
\* the field end of a match is the lastIndex it leaves
ScanExec(re, text, lastIndex) ==
    IF lastIndex > Len(text) THEN [found |-> FALSE]
    ELSE ScanFound(re, text, lastIndex, ScanAt(re, text, lastIndex))

-----------------------------------------------------------------------------
(* extension.ts: documents, compilation, the active-literal tracker *)

\* line.text.substr(0, 1000)
ScanLimit == 1000

RECURSIVE SplitLines(_, _)
\* the lines of a text, cur the line being collected
SplitLines(text, cur) ==
    IF text = <<>> THEN <<cur>>
    ELSE IF Head(text) = "\n" THEN <<cur>> \o SplitLines(Tail(text), <<>>)
    ELSE SplitLines(Tail(text), Append(cur, Head(text)))

\* document.lineAt(i).text, i counted from 0
lineAt(text, i) == SplitLines(text, <<>>)[i + 1]

\* document.lineCount
lineCount(text) == Len(SplitLines(text, <<>>))

\* the try/catch of createRegex around the result r of new RegExp
Caught(r) == IF r = SyntaxError THEN Undefined ELSE r

\* createRegex(pattern, flags): the exception of new RegExp is discarded
createRegex(pattern, flags) == Caught(NewRegExp(pattern, flags))

\* a createRegexMatch that does not test what createRegex returned
NewRegexMatchUntested(document, line, match, regex) ==
    [document |-> document,
     regex |-> regex,
     range |-> NewRange([line |-> line, character |-> match.index + match.len1],
                        [line |-> line,
                         character |-> match.index + match.len1 + match.len2])]

\* the RegexMatch createRegexMatch builds around regex
NewRegexMatch(document, line, match, regex) ==
    IF regex # Undefined
    THEN [document |-> document,
          regex |-> regex,
          range |-> NewRange([line |-> line, character |-> match.index + match.len1],
                             [line |-> line,
                              character |-> match.index + match.len1 + match.len2])]
    ELSE Undefined

\* createRegexMatch(document, line, match)
createRegexMatch(document, line, match) ==
    NewRegexMatch(document, line, match, createRegex(match.pattern, match.flags))

RECURSIVE CaretScan(_, _, _, _)

\* the condition of the while loop of findRegexAtCaret for the match found
CaretLoop(re, text, character, match) ==
    IF match.found /\ match.index + match.len1 + match.len2 < character
    THEN CaretScan(re, text, match.end, character)
    ELSE match

\* the while loop of findRegexAtCaret: the first match of the line that does
\* not end before the caret, or [found |-> FALSE]
CaretScan(re, text, lastIndex, character) ==
    CaretLoop(re, text, character, ScanExec(re, text, lastIndex))

\* the if of findRegexAtCaret for the match the loop ended with
CaretResult(document, anchor, match) ==
    IF match.found /\ match.index + match.len1 <= anchor.character
    THEN createRegexMatch(document, anchor.line, match)
    ELSE Undefined

\* findRegexAtCaret(editor) for an editor of document, of language
\* languageId and text docText, with selection.anchor = anchor
findRegexAtCaret(document, languageId, text, anchor) ==
    CaretResult(document, anchor,
                CaretScan(getRegexRegex(languageId),
                          Substr(lineAt(text, anchor.line), 0, ScanLimit),
                          0, anchor.character))

RECURSIVE LineRegexes(_, _, _, _, _)

\* matches.push(result) when result is defined
Pushed(result) == IF result # Undefined THEN <<result>> ELSE <<>>

\* the body of the inner while loop of findRegexes for the match found
LineLoop(document, re, text, i, match) ==
    IF ~match.found THEN <<>>
    ELSE Pushed(createRegexMatch(document, i, match))
         \o LineRegexes(document, re, text, i, match.end)

\* the inner while loop of findRegexes on line i from scan position lastIndex
LineRegexes(document, re, text, i, lastIndex) ==
    LineLoop(document, re, text, i, ScanExec(re, text, lastIndex))

RECURSIVE FileRegexes(_, _, _, _)
\* the for loop of findRegexes from line i on
FileRegexes(document, languageId, text, i) ==
    IF i >= lineCount(text) THEN <<>>
    ELSE LineRegexes(document, getRegexRegex(languageId),
                     Substr(lineAt(text, i), 0, ScanLimit), i, 0)
         \o FileRegexes(document, languageId, text, i + 1)

\* findRegexes(document)
findRegexes(document, languageId, text) ==
    FileRegexes(document, languageId, text, 0)

-----------------------------------------------------------------------------
(* Bounds *)

\* openLoremIpsum chains in flight at once
MaxOpening == 1

\* the rightmost column a selection change puts the caret at
MaxCaret == 0

\* the code lenses of a document the user can click: its first MaxLenses
MaxLenses == 1

-----------------------------------------------------------------------------
(* The host: documents and editors *)

\* the file openLoremIpsum creates (editorURI once it is set)
PreviewDoc == "P"

Docs == {"A", "B", PreviewDoc}

Editors == {"eA", "eB", "eP"}

\* editor.document
document(editor) ==
    CASE editor = "eA" -> "A"
      [] editor = "eB" -> "B"
      [] editor = "eP" -> PreviewDoc

\* document.languageId
languageId(doc) ==
    CASE doc = "A" -> "javascript"
      [] doc = "B" -> "php"
      [] doc = PreviewDoc -> "plaintext"

languages ==
    {"javascript", "javascriptreact", "typescript", "typescriptreact", "vue", "php", "haxe"}

isLanguageSupported(doc) == languageId(doc) \in languages

\* matchesFileContent, the text the preview file is created with (a short
\* sample standing for the eight lines of the source)
matchesFileContent == <<"a">>

\* the texts an edit can give a document: in A a sticky literal, a literal
\* that does not compile and no literal; B and the preview keep their text
Texts(doc) ==
    CASE doc = "A" -> {<<"/", "a", "/", "y">>, <<"/", "*", "/">>, <<"a">>}
      [] doc = "B" -> {<<"'", "/", "b", "/", "'">>}
      [] doc = PreviewDoc -> {matchesFileContent}

InitialText(doc) ==
    CASE doc = "A" -> <<"a">>
      [] doc = "B" -> <<"'", "/", "b", "/", "'">>
      [] doc = PreviewDoc -> matchesFileContent

\* the positions of a text the caret is put at: those of the first
\* MaxCaret + 1 columns of each line
Positions(text) ==
    UNION {{[line |-> l, character |-> c] :
                c \in 0..Min(MaxCaret, Len(lineAt(text, l)))} :
              l \in 0..(lineCount(text) - 1)}

\* the orders in which the host may list the editors of set
Orders(set) ==
    {o \in [1..Cardinality(set) -> set] : \A i, j \in 1..Cardinality(set) : i # j => o[i] # o[j]}

\* getVisibleTextEditors(): every modelled editor sits in a view column
getVisibleTextEditors(visible) == {editor \in visible : editor \in Editors}

\* isEditorEnabled()
isEditorEnabled(visible) ==
    \E editor \in getVisibleTextEditors(visible) :
        editorURI # None /\ document(editor) = editorURI

-----------------------------------------------------------------------------
(* RegexMatchDecorator: update and dispose, on the rendering state          *)
(* st = [activeRegex, decorators, regexHighlight, matchHighlight]           *)

\* a setDecorations that renders the ranges in both layers
SetDecorationsBoth(st, editor, isEditor, r) ==
    [st EXCEPT
        !.activeRegex = r.regexMatch,
        !.matchHighlight[editor] = r.matches,
        !.regexHighlight[editor] = r.matches]

\* editor.setDecorations(isEditor ? matchHighlight : regexHighlight, ...)
\* with the ranges of r, the result of findMatches
SetDecorations(st, editor, isEditor, r) ==
    [st EXCEPT
        !.activeRegex = r.regexMatch,
        !.matchHighlight[editor] = IF isEditor THEN r.matches ELSE @,
        !.regexHighlight[editor] = IF isEditor THEN @ ELSE r.matches]

\* an update that leaves the layers alone when there is no activeRegex
DecoratorUpdateKeeps(st, editor, txt, enabled) ==
    IF st.activeRegex # Undefined THEN
        IF document(editor) = editorURI
           \/ st.activeRegex.document = document(editor)
        THEN SetDecorations(st, editor, document(editor) = editorURI,
                            findMatches(st.activeRegex, txt[document(editor)], enabled))
        ELSE st
    ELSE st

\* decorator.update(activeRegex, editorURI, addGMEnabled) of the decorator of
\* editor; txt gives the documents' texts
DecoratorUpdate(st, editor, txt, enabled) ==
    IF st.activeRegex # Undefined THEN
        IF document(editor) = editorURI
           \/ st.activeRegex.document = document(editor)
        THEN SetDecorations(st, editor, document(editor) = editorURI,
                            findMatches(st.activeRegex, txt[document(editor)], enabled))
        ELSE st
    ELSE [st EXCEPT !.matchHighlight[editor] = <<>>,
                    !.regexHighlight[editor] = <<>>]

\* decorator.dispose() for each decorator of the editors in set
DisposeAll(st, set) ==
    [st EXCEPT !.matchHighlight = [e \in Editors |-> IF e \in set THEN <<>> ELSE @[e]],
               !.regexHighlight = [e \in Editors |-> IF e \in set THEN <<>> ELSE @[e]]]

-----------------------------------------------------------------------------
(* extension.ts: the resync *)

\* the body of the forEach of updateDecorators for one visible editor
VisitEditor(st, editor, txt, enabled) ==
    IF isLanguageSupported(document(editor)) \/ document(editor) = editorURI
    THEN DecoratorUpdate([st EXCEPT !.decorators = @ \cup {editor}],
                         editor, txt, enabled)
    ELSE st

RECURSIVE VisitAll(_, _, _, _, _)
\* the forEach of updateDecorators over order[k..]
VisitAll(st, order, k, txt, enabled) ==
    IF k > Len(order) THEN st
    ELSE VisitAll(VisitEditor(st, order[k], txt, enabled), order, k + 1, txt, enabled)

\* lines 158-174 of updateDecorators: the visible editors are updated, the
\* decorators of the others disposed and deleted
Retire(st, remove) == [DisposeAll(st, remove) EXCEPT !.decorators = @ \ remove]

\* a selection that forgets the activeRegex when the caret gives none
SelectedClears(old, match, active, txt, sel) ==
    IF match # Undefined THEN match
    ELSE IF active # None /\ isLanguageSupported(document(active))
    THEN findRegexAtCaret(document(active), languageId(document(active)),
                          txt[document(active)], sel[active])
    ELSE Undefined

\* lines 149-156 of updateDecorators: the new activeRegex, old the one held
Selected(old, match, active, txt, sel) ==
    IF match # Undefined THEN match
    ELSE IF active # None /\ isLanguageSupported(document(active))
    THEN findRegexAtCaret(document(active), languageId(document(active)),
                          txt[document(active)], sel[active])
    ELSE old

\* the rendering state as the variables hold it
Current ==
    [activeRegex |-> activeRegex, decorators |-> decorators,
     regexHighlight |-> regexHighlight, matchHighlight |-> matchHighlight]

\* an updateDecorators without the test of isEditorEnabled
updateDecoratorsUnguarded(st, match, order, active, txt, sel, enabled) ==
    Retire(VisitAll([st EXCEPT !.activeRegex =
                                   Selected(st.activeRegex, match, active, txt, sel)],
                    order, 1, txt, enabled),
           st.decorators \ getVisibleTextEditors(Range(order)))

\* updateDecorators(match) in the rendering state st when the host lists the
\* visible editors as order, the active editor is active, the texts are txt,
\* the selections sel and the toggle is enabled: the rendering state it leaves
updateDecorators(st, match, order, active, txt, sel, enabled) ==
    IF ~isEditorEnabled(getVisibleTextEditors(Range(order))) THEN st
    ELSE Retire(VisitAll([st EXCEPT !.activeRegex =
                                        Selected(st.activeRegex, match, active, txt, sel)],
                         order, 1, txt, enabled),
                st.decorators \ getVisibleTextEditors(Range(order)))

\* the rendering state st becomes the next state
Render(st) ==
    /\ activeRegex' = st.activeRegex
    /\ decorators' = st.decorators
    /\ regexHighlight' = st.regexHighlight
    /\ matchHighlight' = st.matchHighlight

\* an event handler that calls updateDecorators(match) in the host state
\* the primed variables describe
Resync(match) ==
    \E order \in Orders(visibleTextEditors') :
        \E st \in {updateDecorators(Current, match, order, activeTextEditor',
                                     docText', selection', addGMEnabled')} :
            Render(st)

-----------------------------------------------------------------------------
(* The state after activate() *)

\* no call of findMatches is being followed step by step
EvIdle == [pc |-> "idle"]

\* module state of extension.ts:26-32 and the host's state at activation
InitExtension ==
    /\ docText = [d \in Docs |-> InitialText(d)]
    /\ selection = [e \in Editors |-> [line |-> 0, character |-> 0]]
    /\ visibleTextEditors = {"eB"}
    /\ activeTextEditor = None
    /\ editorURI = None
    /\ decorators = {}
    /\ addGMEnabled = TRUE
    /\ activeRegex = Undefined
    /\ regexHighlight = [e \in Editors |-> <<>>]
    /\ matchHighlight = [e \in Editors |-> <<>>]
    /\ opening = [showing |-> 0, shown |-> 0]

Init == InitExtension /\ ev = EvIdle

hostVars == <<docText, selection, visibleTextEditors, activeTextEditor>>

renderVars == <<activeRegex, decorators, regexHighlight, matchHighlight>>

-----------------------------------------------------------------------------
(* Events *)

\* the host shows an editor; with focus it becomes the active editor and
\* onDidChangeActiveTextEditor fires (extension.ts:43)
ShowEditor(editor, focus) ==
    /\ editor \notin visibleTextEditors
    /\ document(editor) = PreviewDoc => editorURI # None
    /\ visibleTextEditors' = visibleTextEditors \cup {editor}
    /\ UNCHANGED <<docText, selection, editorURI, addGMEnabled, opening, ev>>
    /\ IF focus
       THEN activeTextEditor' = editor /\ Resync(Undefined)
       ELSE UNCHANGED activeTextEditor /\ UNCHANGED renderVars

\* the host hides an editor; when it was the active one another editor or
\* none becomes active and onDidChangeActiveTextEditor fires.  The editor of
\* B is the one the session starts with and it stays open
HideEditor(editor) ==
    /\ editor # "eB"
    /\ editor \in visibleTextEditors
    /\ visibleTextEditors' = visibleTextEditors \ {editor}
    /\ UNCHANGED <<docText, selection, editorURI, addGMEnabled, opening, ev>>
    /\ IF activeTextEditor = editor
       THEN /\ activeTextEditor' \in visibleTextEditors' \cup {None}
            /\ Resync(Undefined)
       ELSE UNCHANGED activeTextEditor /\ UNCHANGED renderVars

\* onDidChangeActiveTextEditor (extension.ts:43)
ChangeActiveTextEditor(editor) ==
    /\ editor \in visibleTextEditors \cup {None}
    /\ editor # activeTextEditor
    /\ activeTextEditor' = editor
    /\ UNCHANGED <<docText, selection, visibleTextEditors, editorURI, addGMEnabled,
                   opening, ev>>
    /\ Resync(Undefined)

\* onDidChangeTextDocument (extension.ts:47): an edit gives the document the
\* text text and leaves the carets of its editors somewhere in it
ChangeTextDocument(doc, text) ==
    /\ doc = PreviewDoc => editorURI # None
    /\ text \in Texts(doc) \ {docText[doc]}
    /\ docText' = [docText EXCEPT ![doc] = text]
    /\ \E pos \in Positions(text) :
          selection' = [e \in Editors |->
                          IF document(e) = doc /\ isLanguageSupported(doc)
                          THEN pos ELSE selection[e]]
    /\ UNCHANGED <<visibleTextEditors, activeTextEditor, editorURI, addGMEnabled,
                   opening, ev>>
    /\ Resync(Undefined)

\* onDidChangeTextEditorSelection (extension.ts:51); the selection of an
\* editor of an unsupported language is never read and is not recorded
ChangeTextEditorSelection(editor, pos) ==
    /\ editor \in visibleTextEditors
    /\ pos \in Positions(docText[document(editor)])
    /\ IF isLanguageSupported(document(editor))
       THEN selection' = [selection EXCEPT ![editor] = pos]
       ELSE pos = selection[editor] /\ UNCHANGED selection
    /\ UNCHANGED <<docText, visibleTextEditors, activeTextEditor, editorURI,
                   addGMEnabled, opening, ev>>
    /\ Resync(Undefined)

\* onDidCloseTextDocument (extension.ts:55-62): the host disposes a document
\* none of whose editors is shown any more
CloseTextDocument(doc) ==
    /\ \A e \in visibleTextEditors : document(e) # doc
    /\ \E e \in decorators : document(e) = doc
    \* decorators.delete(editor) comes first, so decorators.get(editor) is
    \* undefined and dispose is not called
    /\ decorators' = {e \in decorators : document(e) # doc}
    /\ UNCHANGED <<hostVars, editorURI, addGMEnabled, activeRegex, regexHighlight,
                   matchHighlight, opening, ev>>

\* the command regexpreview.toggleGM (extension.ts:72-76)
ToggleGM ==
    /\ addGMEnabled' = ~addGMEnabled
    /\ UNCHANGED <<hostVars, editorURI, opening, ev>>
    /\ Resync(Undefined)

\* openLoremIpsum (extension.ts:124-141) up to the asynchronous opening
openLoremIpsum ==
    /\ opening.showing + opening.shown < MaxOpening
    /\ editorURI' = PreviewDoc
    /\ docText' = IF editorURI = None
                  THEN [docText EXCEPT ![PreviewDoc] = matchesFileContent]
                  ELSE docText
    /\ opening' = [opening EXCEPT !.showing = @ + 1]
    /\ UNCHANGED <<selection, visibleTextEditors, activeTextEditor, addGMEnabled,
                   renderVars, ev>>

\* toggleRegexPreview(match) (extension.ts:107-122)
toggleRegexPreview(match) ==
    IF ~isEditorEnabled(visibleTextEditors)
    THEN openLoremIpsum
    ELSE /\ UNCHANGED <<hostVars, editorURI, addGMEnabled, opening, ev>>
         /\ IF match # Undefined
            THEN Resync(match)
            ELSE \E st \in {[DisposeAll(Current, decorators) EXCEPT !.decorators = {}]} :
                    Render(st)

\* the command extension.toggleRegexPreview without an argument
TogglePreviewCommand == toggleRegexPreview(Undefined)

\* provideCodeLenses(document) (extension.ts:86-96): the arguments of the
\* code lenses of a document.  The host asks for them again after every
\* change of the document and each answer holds new objects, so a lens the
\* user can click carries a literal of the current text (enableCodeLens,
\* the configuration setting, is taken to be on)
provideCodeLenses(doc) == findRegexes(doc, languageId(doc), docText[doc])

\* the code lens "Test Regex..." of the i-th literal of a shown document
TestRegexLens(doc, i) ==
    /\ isLanguageSupported(doc)
    /\ \E e \in visibleTextEditors : document(e) = doc
    /\ i \in 1..Len(provideCodeLenses(doc))
    /\ toggleRegexPreview(provideCodeLenses(doc)[i])

\* showTextDocument(document, ViewColumn.Beside, true) resolves: the preview
\* editor is shown and the focus stays where it is
ShowTextDocumentResolved ==
    /\ opening.showing > 0
    /\ opening' = [showing |-> opening.showing - 1, shown |-> opening.shown + 1]
    /\ visibleTextEditors' = visibleTextEditors \cup {"eP"}
    /\ UNCHANGED <<docText, selection, activeTextEditor, editorURI, addGMEnabled,
                   renderVars, ev>>

\* the callback of extension.ts:136-138
OpenedCallback ==
    /\ opening.shown > 0
    /\ opening' = [opening EXCEPT !.shown = @ - 1]
    /\ UNCHANGED <<hostVars, editorURI, addGMEnabled, ev>>
    /\ Resync(Undefined)

Next ==
    \/ \E e \in Editors, focus \in BOOLEAN : ShowEditor(e, focus)
    \/ \E e \in Editors : HideEditor(e)
    \/ \E e \in Editors \cup {None} : ChangeActiveTextEditor(e)
    \/ \E d \in Docs : \E t \in Texts(d) : ChangeTextDocument(d, t)
    \/ \E e \in Editors : \E pos \in Positions(docText[document(e)]) :
          ChangeTextEditorSelection(e, pos)
    \/ \E d \in Docs : CloseTextDocument(d)
    \/ ToggleGM
    \/ TogglePreviewCommand
    \/ \E d \in Docs : \E i \in 1..MaxLenses : TestRegexLens(d, i)
    \/ ShowTextDocumentResolved
    \/ OpenedCallback

Spec == Init /\ [][Next]_vars

-----------------------------------------------------------------------------
(* findMatches, one evaluation of the loop condition at a time *)

\* the longest text evaluated
MaxTextLen == 3

\* the largest lastIndex an earlier use has left in a matcher
MaxLastIndex == 2

EvalChars == {"a", "\n"}

EvalTexts == UNION {[1..k -> EvalChars] : k \in 0..MaxTextLen}

EvalSources == {<<>>, <<"a">>, <<"^", "a">>, <<"a", "*">>, <<"a", "$">>}

EvalFlags == {SelectSeq(FlagOrder, LAMBDA f : f \in fs) : fs \in SUBSET {"g", "m", "y"}}

\* the matchers findMatches is called with: while the loop of findMatches
\* runs to its end on every global matcher, exec has put its lastIndex back
\* to 0; the lastIndex of any other matcher is where a match or the
\* empty-match step left it
EvalMatchers ==
    {[NewRegExp(src, fl) EXCEPT !.lastIndex = li] :
        <<src, fl, li>> \in {x \in EvalSources \X EvalFlags \X (0..MaxLastIndex) :
                                "g" \in Range(x[2]) => x[3] = 0}}

\* a call findMatches(regexMatch, document, addGMEnabled) about to start
EvalCall(regex, text, enabled) ==
    [pc |-> "addGM",
     regexMatch |-> [document |-> "A", regex |-> regex,
                     range |-> NewRange(positionAt(text, 0), positionAt(text, 0))],
     text |-> text, enabled |-> enabled]

InitEval ==
    /\ InitExtension
    /\ \E regex \in EvalMatchers, text \in EvalTexts, enabled \in BOOLEAN :
          ev = EvalCall(regex, text, enabled)

\* RegexMatchDecorator.ts:63-66: the matcher to evaluate is chosen
EvalAddGM ==
    /\ ev.pc = "addGM"
    /\ \E g \in {addGM(ev.regexMatch.regex, ev.enabled)} :
          ev' = [pc |-> "loop", regexMatch |-> ev.regexMatch, text |-> ev.text,
                 enabled |-> ev.enabled, g |-> g,
                 st |-> [regex |-> g.regex, matches |-> <<>>, done |-> FALSE]]

\* RegexMatchDecorator.ts:67-78: the loop condition is evaluated once, and
\* the body when it holds.  No text gives more matches than it has
\* positions, which bounds the length of matches
EvalIterate ==
    /\ ev.pc = "loop"
    /\ ~ev.st.done
    /\ Len(ev.st.matches) <= Len(ev.text) + 1
    /\ ev' = [ev EXCEPT !.st = LoopStep(ev.st, ev.text)]

\* RegexMatchDecorator.ts:79: findMatches returns
EvalReturn ==
    /\ ev.pc = "loop"
    /\ ev.st.done
    /\ ev' = [pc |-> "done", regexMatch |-> ev.regexMatch, text |-> ev.text,
              enabled |-> ev.enabled, g |-> ev.g, st |-> ev.st,
              result |-> Evaluated(ev.regexMatch, ev.g, ev.st)]

extensionVars == <<docText, selection, visibleTextEditors, activeTextEditor, editorURI,
                   decorators, addGMEnabled, activeRegex, regexHighlight,
                   matchHighlight, opening>>

NextEval ==
    \/ EvalAddGM /\ UNCHANGED extensionVars
    \/ EvalIterate /\ UNCHANGED extensionVars
    \/ EvalReturn /\ UNCHANGED extensionVars

SpecEval == InitEval /\ [][NextEval]_vars

\* the evaluator runs to completion once called: it is synchronous code
FairSpecEval == SpecEval /\ WF_vars(NextEval)

-----------------------------------------------------------------------------
(* Properties of the match evaluator *)

\* position p is before position q
Before(p, q) ==
    p.line < q.line \/ (p.line = q.line /\ p.character < q.character)

NotAfter(p, q) == p = q \/ Before(p, q)

\* the least element of a non-empty set of numbers
Least(set) == CHOOSE p \in set : \A q \in set : p <= q

\* the offsets from cursor on at which regex matches text; a sticky matcher
\* only looks at cursor itself
MatchStarts(regex, text, cursor) ==
    {p \in cursor..Len(text) :
        /\ MatchAt(regex, text, p) # NoMatch
        /\ "y" \in regex.flags => p = cursor}

RECURSIVE ForwardSearch(_, _, _)
\* the spans repeated forward search finds from cursor on: the leftmost
\* match, then the search resumes at its end, one further on when the match
\* is empty
ForwardSearch(regex, text, cursor) ==
    IF MatchStarts(regex, text, cursor) = {} THEN <<>>
    ELSE LET p == Least(MatchStarts(regex, text, cursor))
             e == MatchAt(regex, text, p)
         IN <<NewRange(positionAt(text, p), positionAt(text, e))>>
            \o ForwardSearch(regex, text, IF e = p THEN e + 1 ELSE e)

\* C7: findMatches returns at most one span when the matcher it evaluates
\* is not global; when it is global it returns every match repeated forward
\* search finds; the spans are strictly left to right and each starts at or
\* after the end of the one before
C7_SpansInOrder ==
    ev.pc = "done" =>
        /\ "g" \notin ev.g.regex.flags => Len(ev.result.matches) <= 1
        /\ "g" \in ev.g.regex.flags =>
              ev.result.matches = ForwardSearch(ev.g.regex, ev.text, ev.g.regex.lastIndex)
        /\ \A k \in 1..(Len(ev.result.matches) - 1) :
              /\ Before(ev.result.matches[k].start, ev.result.matches[k + 1].start)
              /\ NotAfter(ev.result.matches[k].end, ev.result.matches[k + 1].start)

\* a global evaluation has returned several spans, an empty one among them
C7_Witness ==
    /\ ev.pc = "done"
    /\ "g" \in ev.g.regex.flags
    /\ Len(ev.result.matches) >= 3
    /\ \E k \in 1..Len(ev.result.matches) :
          ev.result.matches[k].start = ev.result.matches[k].end
    /\ \E k \in 1..Len(ev.result.matches) :
          ev.result.matches[k].start # ev.result.matches[k].end

\* the matches of the empty global pattern in text: one empty span at each
\* offset 0..Len(text)
EmptySpans(text) ==
    [k \in 1..(Len(text) + 1) |->
        NewRange(positionAt(text, k - 1), positionAt(text, k - 1))]

\* C8: every call of findMatches returns, and the call with the empty
\* global pattern on a text of N characters returns the N + 1 empty spans at
\* the offsets 0..N
C8_Terminates ==
    <>(/\ ev.pc = "done"
       /\ (ev.g.regex.source = <<>> /\ "g" \in ev.g.regex.flags)
            => ev.result.matches = EmptySpans(ev.text))

\* the empty global pattern has been evaluated on a text of the greatest
\* length and has returned one span more than the text has characters
C8_Witness ==
    /\ ev.pc = "done"
    /\ ev.regexMatch.regex.source = <<>>
    /\ "g" \in ev.regexMatch.regex.flags
    /\ Len(ev.text) = MaxTextLen
    /\ Len(ev.result.matches) = MaxTextLen + 1

\* the flags of regex with global and multiline added, in the order of the
\* flags getter
WithGM(regex) ==
    SelectSeq(FlagOrder, LAMBDA f : f \in regex.flags \cup {"g", "m"})

\* does the call of ev augment its matcher
Augments ==
    ev.enabled /\ ~({"g", "m"} \subseteq ev.regexMatch.regex.flags)

\* C9: with augment on and global or multiline missing, findMatches returns
\* the spans of the matcher of the same source with both flags added,
\* evaluated with augment off, and leaves the flags and the scan position of
\* the original matcher as they were; otherwise the matcher passed in is
\* the one evaluated
C9_Augmented ==
    ev.pc = "done" =>
        IF Augments
        THEN /\ ev.result.matches =
                  findMatches([ev.regexMatch EXCEPT
                                  !.regex = NewRegExp(@.source, WithGM(@))],
                              ev.text, FALSE).matches
             /\ ev.result.regexMatch.regex = ev.regexMatch.regex
        ELSE /\ ev.g.same
             /\ ev.g.regex = ev.regexMatch.regex
             /\ ev.result = findMatches(ev.regexMatch, ev.text, FALSE)

\* an augmented call has returned spans the matcher as written does not
\* give, for a matcher whose scan position was not 0
C9_Witness ==
    /\ ev.pc = "done"
    /\ Augments
    /\ ev.regexMatch.regex.lastIndex > 0
    /\ ev.result.matches # findMatches(ev.regexMatch, ev.text, FALSE).matches
    /\ Len(ev.result.matches) >= 2

-----------------------------------------------------------------------------
(* Properties of the resync *)

\* the rendering state updateDecorators() leaves when it is called in the
\* current state and the host lists the visible editors as order
After(order) ==
    updateDecorators(Current, Undefined, order, activeTextEditor, docText,
                     selection, addGMEnabled)

\* the rendering state a second call leaves, right after the first
AfterTwice(order) ==
    updateDecorators(After(order), Undefined, order, activeTextEditor, docText,
                     selection, addGMEnabled)

\* updateDecorators() keeps the activeRegex object it finds: the focus is
\* in no editor of a supported language
KeepsActiveRegex ==
    activeTextEditor = None \/ ~isLanguageSupported(document(activeTextEditor))

\* C1: two calls of updateDecorators in a row, with the same activeRegex
\* object, visible editors, texts and toggle, leave the same spans in both
\* layers of every editor as the first call alone
C1_Idempotent ==
    KeepsActiveRegex =>
        \A order \in Orders(visibleTextEditors) :
            /\ AfterTwice(order).regexHighlight = After(order).regexHighlight
            /\ AfterTwice(order).matchHighlight = After(order).matchHighlight

\* C2: after a resync with an activeRegex, the origin layer of every visible
\* editor of its document (other than the preview) holds exactly one span,
\* the range of the literal
C2_OriginSpan ==
    isEditorEnabled(visibleTextEditors) =>
        \A order \in Orders(visibleTextEditors) :
            After(order).activeRegex # Undefined =>
                \A e \in visibleTextEditors :
                    (document(e) = After(order).activeRegex.document
                     /\ document(e) # editorURI)
                    => After(order).regexHighlight[e] = <<After(order).activeRegex.range>>

\* C3: after a resync with an activeRegex, both layers are empty in every
\* visible editor that shows neither the preview nor the document of the
\* activeRegex
C3_IrrelevantCleared ==
    isEditorEnabled(visibleTextEditors) =>
        \A order \in Orders(visibleTextEditors) :
            After(order).activeRegex # Undefined =>
                \A e \in visibleTextEditors :
                    (document(e) # After(order).activeRegex.document
                     /\ document(e) # editorURI)
                    => /\ After(order).regexHighlight[e] = <<>>
                       /\ After(order).matchHighlight[e] = <<>>

\* a matcher newly compiled from the pattern and the flags of match
Recompiled(match) ==
    [match EXCEPT !.regex = NewRegExp(@.source, FlagString(@))]

\* C4: after a resync with an activeRegex and the preview visible, the match
\* layer of the preview editor holds the spans findMatches gives for a newly
\* compiled matcher of the same pattern and flags on the preview text under
\* the current toggle
C4_PreviewSpans ==
    "eP" \in visibleTextEditors =>
        \A order \in Orders(visibleTextEditors) :
            After(order).activeRegex # Undefined =>
                After(order).matchHighlight["eP"] =
                    findMatches(Recompiled(After(order).activeRegex),
                                docText[PreviewDoc], addGMEnabled).matches

\* C5: after a call of updateDecorators no editor that is not visible is
\* tracked, and every editor the call has stopped tracking has both layers
\* empty
C5_Retired ==
    \A order \in Orders(visibleTextEditors) :
        /\ After(order).decorators \subseteq visibleTextEditors
        /\ \A e \in decorators \ After(order).decorators :
              /\ After(order).regexHighlight[e] = <<>>
              /\ After(order).matchHighlight[e] = <<>>

\* C6: the handler of the document-closed event removes every tracked
\* editor of the document and empties both of its layers
C6_TornDown ==
    [][\A d \in Docs :
          CloseTextDocument(d) =>
              \A e \in decorators :
                  document(e) = d =>
                      /\ e \notin decorators'
                      /\ regexHighlight'[e] = <<>>
                      /\ matchHighlight'[e] = <<>>]_vars

\* new RegExp accepts the pattern and the flags of match
Compiles(match) ==
    /\ match.regex # Undefined
    /\ NewRegExp(match.regex.source, FlagString(match.regex)) # SyntaxError

\* C10: activeRegex is undefined or holds a literal that compiles, and
\* neither findRegexAtCaret nor findRegexes returns a literal that does not
C10_Compiles ==
    /\ \A d \in {x \in Docs : isLanguageSupported(x)} :
          /\ \A pos \in Positions(docText[d]) :
                findRegexAtCaret(d, languageId(d), docText[d], pos) # Undefined
                => Compiles(findRegexAtCaret(d, languageId(d), docText[d], pos))
          /\ \A i \in 1..Len(findRegexes(d, languageId(d), docText[d])) :
                Compiles(findRegexes(d, languageId(d), docText[d])[i])
    /\ activeRegex # Undefined => Compiles(activeRegex)

\* the preview is open, the focus is in the tracked editor of A, whose text
\* holds a literal the engine rejects, and there is no activeRegex
C10_Witness ==
    /\ isEditorEnabled(visibleTextEditors)
    /\ activeTextEditor = "eA"
    /\ "eA" \in decorators
    /\ ScanExec(regexRegex, docText["A"], 0).found
    /\ NewRegExp(ScanExec(regexRegex, docText["A"], 0).pattern,
                 ScanExec(regexRegex, docText["A"], 0).flags) = SyntaxError
    /\ activeRegex = Undefined

-----------------------------------------------------------------------------
(* findRegexAtCaret and findRegexes, called on lines that hold literals *)

\* a literal with the pattern a as a text of the language writes it
Literal(language, flags) ==
    (IF language = "php" THEN <<"'">> ELSE <<>>)
    \o (IF language = "haxe" THEN <<"~">> ELSE <<>>)
    \o <<"/", "a", "/">> \o flags
    \o (IF language = "php" THEN <<"'">> ELSE <<>>)

\* what precedes the first literal of a line
ScanLeads == {<<>>, <<" ">>, <<"=", " ">>, <<"a">>}

\* what follows it: nothing, a delimiter, a second literal, a letter
ScanRests(language) ==
    {<<>>, <<";">>, <<" ", " ">> \o Literal(language, <<>>), <<"a">>}

\* the lines scanned
ScanLines(language) ==
    {lead \o Literal(language, flags) \o rest :
        lead \in ScanLeads, flags \in {<<>>, <<"g">>}, rest \in ScanRests(language)}

\* the documents scanned: a line, alone or below another line
ScanTexts(language) ==
    ScanLines(language) \cup {<<"a", "\n">> \o line : line \in ScanLines(language)}

\* every position of a text
AllPositions(text) ==
    UNION {{[line |-> l, character |-> c] : c \in 0..Len(lineAt(text, l))} :
              l \in 0..(lineCount(text) - 1)}

\* a document of language languageId with the caret at anchor
ScanCall(language, text, anchor) ==
    [pc |-> "scan", languageId |-> language, text |-> text, anchor |-> anchor]

InitScan ==
    /\ InitExtension
    /\ \E language \in {"javascript", "php", "haxe"} :
          \E text \in ScanTexts(language) :
              \E anchor \in AllPositions(text) :
                  ev = ScanCall(language, text, anchor)

\* findRegexAtCaret(editor) is called (extension.ts:154)
ScanCaret ==
    /\ ev.pc = "scan"
    /\ ev' = [pc |-> "caret", languageId |-> ev.languageId, text |-> ev.text,
              anchor |-> ev.anchor,
              result |-> findRegexAtCaret("A", ev.languageId, ev.text, ev.anchor)]

\* findRegexes(document) is called (extension.ts:90)
ScanLenses ==
    /\ ev.pc = "scan"
    /\ ev' = [pc |-> "lenses", languageId |-> ev.languageId, text |-> ev.text,
              anchor |-> ev.anchor,
              result |-> findRegexes("A", ev.languageId, ev.text)]

NextScan ==
    \/ ScanCaret /\ UNCHANGED extensionVars
    \/ ScanLenses /\ UNCHANGED extensionVars

SpecScan == InitScan /\ [][NextScan]_vars

-----------------------------------------------------------------------------
(* Properties of the scanner *)

RECURSIVE CandidatesFrom(_, _, _)
\* the candidates of a line from scan position lastIndex on, left to right
CandidatesFrom(re, text, lastIndex) ==
    IF ~ScanExec(re, text, lastIndex).found THEN <<>>
    ELSE <<ScanExec(re, text, lastIndex)>>
         \o CandidatesFrom(re, text, ScanExec(re, text, lastIndex).end)

\* the column at which the delimiter-to-flags text of candidate m starts,
\* and the column after its last character
SpanStart(re, m) == GroupStart(re, m.index, m.len1)

SpanEnd(re, m) == SpanStart(re, m) + m.len2

\* the candidates of the line whose span ends at or after column and
\* starts at or before it
Around(re, line, column) ==
    SelectSeq(CandidatesFrom(re, line, 0),
              LAMBDA m : SpanEnd(re, m) >= column /\ SpanStart(re, m) <= column)

\* C11: findRegexAtCaret returns the first candidate of the caret's line
\* whose delimiter-to-flags span ends at or after the caret column and
\* starts at or before it, and none when there is no such candidate
C11_CaretSelects ==
    ev.pc = "caret" =>
        LET re == getRegexRegex(ev.languageId)
            line == lineAt(ev.text, ev.anchor.line)
            around == Around(re, line, ev.anchor.character)
        IN IF around = <<>> THEN ev.result = Undefined
           ELSE ev.result = createRegexMatch("A", ev.anchor.line, around[1])

\* the literal of a RegexMatch as the language writes it from the
\* delimiter (the sigil in haxe) to the flags
Written(language, match) ==
    (IF language = "haxe" THEN <<"~">> ELSE <<>>)
    \o <<"/">> \o match.regex.source \o <<"/">> \o FlagString(match.regex)

\* the text of the document between the columns of the range of match
Spanned(text, match) ==
    SubSeq(lineAt(text, match.range.start.line),
           match.range.start.character + 1, match.range.end.character)

\* C12: in each dialect the range of a scanned literal spans exactly its
\* delimiter-to-flags text on the line, without the boundary characters
\* and without the quotes
C12_RangeIsLiteral ==
    /\ ev.pc = "lenses" =>
          \A i \in 1..Len(ev.result) :
              Spanned(ev.text, ev.result[i]) = Written(ev.languageId, ev.result[i])
    /\ (ev.pc = "caret" /\ ev.result # Undefined) =>
          Spanned(ev.text, ev.result) = Written(ev.languageId, ev.result)

-----------------------------------------------------------------------------
(* Properties of the commands *)

\* C13: the toggle-preview command without a literal, invoked while the
\* preview is visible, leaves activeRegex undefined
C13_ClearedOnOff ==
    [][(isEditorEnabled(visibleTextEditors) /\ TogglePreviewCommand)
       => activeRegex' = Undefined]_vars

\* the rendering state with both layers of every editor empty
Blank ==
    [Current EXCEPT !.regexHighlight = [e \in Editors |-> <<>>],
                    !.matchHighlight = [e \in Editors |-> <<>>]]

\* what updateDecorators() renders under the other toggle value when no
\* layer holds a span beforehand
Recomputed(order) ==
    updateDecorators(Blank, Undefined, order, activeTextEditor, docText,
                     selection, ~addGMEnabled)

\* C14: the toggle command flips addGMEnabled and, with the preview visible,
\* leaves in both layers of every visible editor the spans a recomputation
\* under the new value renders, and no other span
C14_ToggleResyncs ==
    [][(isEditorEnabled(visibleTextEditors) /\ ToggleGM) =>
          /\ addGMEnabled' = ~addGMEnabled
          /\ \E order \in Orders(visibleTextEditors) :
                \A e \in visibleTextEditors :
                    /\ regexHighlight'[e] = Recomputed(order).regexHighlight[e]
                    /\ matchHighlight'[e] = Recomputed(order).matchHighlight[e]]_vars

\* is position pos within range, its ends included
Contains(range, pos) ==
    /\ range.start.line = pos.line
    /\ range.start.character <= pos.character
    /\ pos.character <= range.end.character

\* the preview is visible, the focus is in an editor of a supported
\* language and its caret is in none of the literals of its document
CaretInNoLiteral ==
    /\ isEditorEnabled(visibleTextEditors)
    /\ activeTextEditor # None
    /\ isLanguageSupported(document(activeTextEditor))
    /\ \A i \in 1..Len(provideCodeLenses(document(activeTextEditor))) :
          ~Contains(provideCodeLenses(document(activeTextEditor))[i].range,
                    selection[activeTextEditor])

SameLiteral(a, b) ==
    IF a = Undefined \/ b = Undefined THEN a = b
    ELSE /\ a.document = b.document
         /\ a.range = b.range
         /\ a.regex.source = b.regex.source
         /\ a.regex.flags = b.regex.flags

\* the literals the code lenses of the visible editors carry
LensLiterals ==
    UNION {Range(provideCodeLenses(document(e))) :
              e \in {x \in visibleTextEditors : isLanguageSupported(document(x))}}

\* the rendering state after toggleRegexPreview(match) was invoked with the
\* preview file created but not visible, the preview editor was shown
\* beside the others and the callback of extension.ts:136-138 has run
AfterOpening(order) ==
    updateDecorators(Current, Undefined, order, activeTextEditor, docText,
                     selection, addGMEnabled)

\* C16: after toggleRegexPreview is invoked with a literal L, and the
\* opening of the preview it may start has completed, activeRegex holds L,
\* whether the preview was visible before the command or not
C16_ExplicitSelection ==
    \A match \in LensLiterals :
        IF isEditorEnabled(visibleTextEditors)
        THEN \A order \in Orders(visibleTextEditors) :
                SameLiteral(updateDecorators(Current, match, order, activeTextEditor,
                                             docText, selection,
                                             addGMEnabled).activeRegex,
                            match)
        ELSE editorURI # None =>
                \A order \in Orders(visibleTextEditors \cup {"eP"}) :
                    SameLiteral(AfterOpening(order).activeRegex, match)

\* C17: the match layer holds spans only in editors of the preview
\* document and the origin layer only in editors of other documents, so no
\* editor has spans in both
C17_LayersExclusive ==
    \A e \in Editors :
        /\ matchHighlight[e] # <<>> => document(e) = editorURI
        /\ regexHighlight[e] # <<>> => document(e) # editorURI
        /\ matchHighlight[e] = <<>> \/ regexHighlight[e] = <<>>

\* the preview editor holds match spans while a source editor holds an
\* origin span
C17_Witness ==
    /\ "eP" \in visibleTextEditors
    /\ matchHighlight["eP"] # <<>>
    /\ \E e \in visibleTextEditors : regexHighlight[e] # <<>>

\* the visible editors updateDecorators renders for the literal match
Rendered(match) ==
    {e \in visibleTextEditors :
        document(e) = editorURI \/ document(e) = match.document}

\* the layer updateDecorators renders in editor e
Layer(st, e) ==
    IF document(e) = editorURI THEN st.matchHighlight[e] ELSE st.regexHighlight[e]

\* C18: a resync without a literal, with the focus in no editor or in one of
\* an unsupported language, keeps the activeRegex, and renders the editors
\* of the preview and of its document against it: the layer holds what
\* findMatches returns for that matcher at some scan position
C18_KeepsActiveRegex ==
    (KeepsActiveRegex /\ isEditorEnabled(visibleTextEditors)) =>
        \A order \in Orders(visibleTextEditors) :
            /\ SameLiteral(After(order).activeRegex, activeRegex)
            /\ activeRegex # Undefined =>
                  \A e \in Rendered(activeRegex) :
                      \E li \in 0..(Len(docText[document(e)]) + 1) :
                          Layer(After(order), e) =
                              findMatches([activeRegex EXCEPT !.regex.lastIndex = li],
                                          docText[document(e)], addGMEnabled).matches

\* the focus is in the preview editor, an activeRegex is held and the
\* resync renders a span for it in the preview editor
C18_Witness ==
    /\ activeTextEditor = "eP"
    /\ isEditorEnabled(visibleTextEditors)
    /\ activeRegex # Undefined
    /\ \E order \in Orders(visibleTextEditors) :
          After(order).matchHighlight["eP"] # <<>>

\* C19: while no visible editor shows the preview document, also before
\* the preview file exists, updateDecorators changes nothing: activeRegex,
\* the tracked editors and both layers of every editor stay as they are,
\* with a literal passed or without
C19_NoOpWhenClosed ==
    ~isEditorEnabled(visibleTextEditors) =>
        \A match \in {Undefined} \cup LensLiterals :
            \A order \in Orders(visibleTextEditors) :
                updateDecorators(Current, match, order, activeTextEditor, docText,
                                 selection, addGMEnabled) = Current

\* the preview is not visible while editors are tracked, a span is left in
\* a layer, and the caret of the active editor is in a literal other than
\* the activeRegex
C19_Witness ==
    /\ ~isEditorEnabled(visibleTextEditors)
    /\ decorators # {}
    /\ \E e \in Editors : regexHighlight[e] # <<>> \/ matchHighlight[e] # <<>>
    /\ activeTextEditor # None
    /\ isLanguageSupported(document(activeTextEditor))
    /\ LensLiterals # {}
    /\ ~SameLiteral(findRegexAtCaret(document(activeTextEditor),
                                     languageId(document(activeTextEditor)),
                                     docText[document(activeTextEditor)],
                                     selection[activeTextEditor]),
                    activeRegex)

=============================================================================
